---- MODULE Spec2Model ----
(***************************************************************************)
(* RailDataset (src/model/wcid_keras/dataset/dataset.py): a keras Sequence *)
(* that pairs image and mask files, keeps them in a jointly shuffled       *)
(* order and serves batches.                                               *)
(*                                                                         *)
(* Representation.  A path is <<directory, stem, extension>>.  A dict is a *)
(* function on the set of its keys.  Probabilities are kept in percent     *)
(* (0.5 is 50) and the rotation limit in tenths of a degree ((-2.5, 2.5)   *)
(* is <<-25, 25>>).  Mask values are kept in halves (0 is 0, 0.5 is 1,     *)
(* 1 is 2, 2 is 4, -1 is -2), so that a float mask can hold a value        *)
(* strictly between the two classes.  An array is known by its shape       *)
(* (a tuple) and, for masks, by the set of values it holds.                *)
(***************************************************************************)
EXTENDS Integers, Sequences, FiniteSets

VARIABLES img_pths, msk_pths, res, batch_size, transforms, tfs_prb,
          bg_dir_pth, default_tfs, constructed, found, arg_tfs, ret

vars == <<img_pths, msk_pths, res, batch_size, transforms, tfs_prb,
          bg_dir_pth, default_tfs, constructed, found, arg_tfs, ret>>

----------------------------------------------------------------------------
(* Bounds of the model *)

\* file stems are 1..MaxStem, so a directory holds at most MaxStem files
MaxStem == 4
\* batch_size ranges over 1..MaxBatch
MaxBatch == 2

Stems == 1..MaxStem
BatchSizes == 1..MaxBatch
\* batch indices handed to __getitem__: every position and one past the end
BatchIdxs == 0..MaxStem

----------------------------------------------------------------------------
(* Values *)

None == "None"
BgDirs == {None, "bg"}

\* value k of a mask array, in halves
Scaled(k) == 2 * k
EmptyDict == [k \in {} |-> 0]

RecognizedKeys == {"HorizontalFlip", "RandomBrightnessContrast", "Rotate",
                   "RotateLimit", "MotionBlur", "BackgroundSwap"}

NoRet == [op |-> "none", kind |-> "none", b |-> 0, idx |-> <<>>,
          img_shape |-> <<>>, msk_shape |-> <<>>, msk_vals |-> {}, val |-> 0]

----------------------------------------------------------------------------
(* Helpers of the standard library, as the code uses them *)

Min(a, b) == IF a < b THEN a ELSE b

\* pathlib.Path(p).stem
Stem(p) == p[2]

\* os.path.join(dir, "*.ext") handed to glob.glob: the files of the directory
Glob(dir, stems, ext) == {<<dir, s, ext>> : s \in stems}

\* order of two paths of one directory and extension: by file name
PathLE(p, q) == p[2] <= q[2]

RECURSIVE sorted(_)
sorted(S) ==
    IF S = {} THEN <<>>
    ELSE LET m == CHOOSE x \in S : \A y \in S : PathLE(x, y)
         IN  <<m>> \o sorted(S \ {m})

\* list(zip(a, b)): stops at the shorter argument
Zip(a, b) == [i \in 1..Min(Len(a), Len(b)) |-> <<a[i], b[i]>>]

\* the orders random.shuffle can leave a list of n elements in
Perms(n) == {p \in [1..n -> 1..n] : \A i, j \in 1..n : p[i] = p[j] => i = j}

\* a shuffle that loses the element it places last
ShuffleDropping(list, p) == [i \in 1..(Len(list) - 1) |-> list[p[i]]]

\* random.shuffle(list), p being the permutation drawn
Shuffle(list, p) == [i \in 1..Len(list) |-> list[p[i]]]

\* zip(*list): one tuple per component of the pairs, none for an empty list
Unzip(list) ==
    IF Len(list) = 0 THEN <<>>
    ELSE << [i \in 1..Len(list) |-> list[i][1]],
            [i \in 1..Len(list) |-> list[i][2]] >>

\* the division rounded up instead of down
CeilDiv(a, b) == (a + b - 1) \div b

\* a // b for non-negative a and positive b
FloorDiv(a, b) == a \div b

----------------------------------------------------------------------------
(* __init__ *)

\* a stem check that looks at the first pair only
StemMismatchFirst(imgs, msks) == Stem(imgs[1]) # Stem(msks[1])

\* lines 91-97: some aligned pair has different stems
StemMismatch(imgs, msks) ==
    \E i \in 1..Min(Len(imgs), Len(msks)) : Stem(imgs[i]) # Stem(msks[i])

\* an assignment of the default that does not look for the caller's value
SetAlways(d, k, v) == [x \in DOMAIN d \cup {k} |-> IF x = k THEN v ELSE d[x]]

\* one "if not key in self.tfs_prb: self.tfs_prb[key] = value"
SetDefault(d, k, v) ==
    IF k \in DOMAIN d THEN d
    ELSE [x \in DOMAIN d \cup {k} |-> IF x = k THEN v ELSE d[x]]

\* lines 99-111
ApplyDefaults(d) ==
    LET d1 == SetDefault(d, "HorizontalFlip", 50)
        d2 == SetDefault(d1, "RandomBrightnessContrast", 20)
        d3 == SetDefault(d2, "Rotate", 90)
        d4 == SetDefault(d3, "RotateLimit", <<-25, 25>>)
        d5 == SetDefault(d4, "MotionBlur", 10)
    IN  SetDefault(d5, "BackgroundSwap", 90)

\* the instance is unusable: the constructor raised
Failed(imgs, msks, tfs) ==
    /\ constructed' = FALSE
    /\ img_pths' = <<>>
    /\ msk_pths' = <<>>
    /\ res' = <<0, 0>>
    /\ batch_size' = 1
    /\ transforms' = FALSE
    /\ bg_dir_pth' = None
    /\ tfs_prb' = EmptyDict
    /\ found' = <<0, 0>>
    /\ arg_tfs' = EmptyDict
    /\ ret' = [NoRet EXCEPT !.op = "__init__", !.kind = "ValueError"]
    /\ UNCHANGED default_tfs

\* RailDataset(imgs_pth, msks_pth, res, ..., batch_size, transforms, tfs_prb,
\* bg_dir_pth); imgStems and mskStems are the files the two directories hold,
\* useDefault says that the caller passed no tfs_prb, p is the shuffle drawn
__init__(imgStems, mskStems, r, bs, tf, useDefault, tfs, bg, p) ==
    LET imgs == sorted(Glob("imgs", imgStems, "png"))
        msks == sorted(Glob("msks", mskStems, "png"))
        dict == IF useDefault THEN default_tfs ELSE tfs
        shuffled_list == Shuffle(Zip(imgs, msks), p)
        unz == Unzip(shuffled_list)
    IN  /\ p \in Perms(Len(Zip(imgs, msks)))
        /\ IF Len(unz) # 2
           THEN \* line 76: not enough values to unpack
                Failed(imgs, msks, dict)
           ELSE IF r[1] < 1 \/ r[2] < 1
           THEN Failed(imgs, msks, dict)
           ELSE IF ~(Len(unz[1]) = Len(unz[2]))
           THEN Failed(imgs, msks, dict)
           ELSE IF StemMismatch(unz[1], unz[2])
           THEN Failed(imgs, msks, dict)
           ELSE /\ constructed' = TRUE
                /\ img_pths' = unz[1]
                /\ msk_pths' = unz[2]
                /\ res' = r
                /\ batch_size' = bs
                /\ transforms' = tf
                /\ bg_dir_pth' = bg
                /\ tfs_prb' = ApplyDefaults(dict)
                /\ default_tfs' = IF useDefault THEN ApplyDefaults(dict)
                                  ELSE default_tfs
                /\ found' = <<Len(imgs), Len(msks)>>
                /\ arg_tfs' = IF useDefault THEN EmptyDict ELSE tfs
                /\ ret' = [NoRet EXCEPT !.op = "__init__"]

----------------------------------------------------------------------------
(* __len__ *)

\* a length that counts samples instead of batches
len_samples == Len(img_pths)

\* line 119
__len__ == FloorDiv(Len(img_pths), batch_size)

Length ==
    /\ constructed
    /\ ret' = [NoRet EXCEPT !.op = "__len__", !.val = __len__]
    /\ UNCHANGED <<img_pths, msk_pths, res, batch_size, transforms, tfs_prb,
                   bg_dir_pth, default_tfs, constructed, found, arg_tfs>>

----------------------------------------------------------------------------
(* on_epoch_end *)

on_epoch_end(p) ==
    LET shuffled_list == Shuffle(Zip(img_pths, msk_pths), p)
        unz == Unzip(shuffled_list)
    IN  /\ constructed
        /\ p \in Perms(Len(Zip(img_pths, msk_pths)))
        /\ IF Len(unz) # 2
           THEN \* line 230: not enough values to unpack
                /\ ret' = [NoRet EXCEPT !.op = "on_epoch_end",
                                        !.kind = "ValueError"]
                /\ UNCHANGED <<img_pths, msk_pths>>
           ELSE /\ img_pths' = unz[1]
                /\ msk_pths' = unz[2]
                /\ ret' = [NoRet EXCEPT !.op = "on_epoch_end"]
        /\ UNCHANGED <<res, batch_size, transforms, tfs_prb, bg_dir_pth,
                       default_tfs, constructed, found, arg_tfs>>

----------------------------------------------------------------------------
(* __getitem__ *)

\* self.img_pths[file_idx] for file_idx >= 0: inside the tuple or IndexError
InRange(file_idx) == file_idx >= 0 /\ file_idx < Len(img_pths)

\* an array laid out (width, height) as res is
ResizedShapeWH(r, ch) ==
    IF ch = 0 THEN <<r[1], r[2]>> ELSE <<r[1], r[2], ch>>

\* Image.resize(self.res) followed by np.asarray: res is (width, height), the
\* array is (height, width) and, for an image with channels, (height, width, c)
ResizedShape(r, ch) ==
    IF ch = 0 THEN <<r[2], r[1]>> ELSE <<r[2], r[1], ch>>

\* a check made only when a background can be swapped in
BackgroundMissingWhenSwapping ==
    bg_dir_pth = None /\ tfs_prb["BackgroundSwap"] > 0

\* line 173
BackgroundMissing == bg_dir_pth = None

\* augment_images(image_arr, mask_arr, bg_dir_pth, bg_ext, p): the image
\* array with its background swapped, of the shape it came in with
augment_images(image_shape) == image_shape

\* transform(image=, mask=): crop to (res[1], res[0]), flip, brightness,
\* rotate, blur; none of them changes the shape of either array
Augmented(shape) == shape

\* lines 191-193 on a mask holding the values vals (in halves)
ClassCheckFails(vals) ==
    LET highest_class == CHOOSE v \in vals : \A u \in vals : u <= v
        lowest_class == CHOOSE v \in vals : \A u \in vals : v <= u
    IN  highest_class > Scaled(1) \/ lowest_class < Scaled(0)

\* np.expand_dims(arr, axis=0)
ExpandDims(shape) == <<1>> \o shape

\* arr.transpose(axes): axes are 0-based and must name every axis once
TransposeOk(shape, axes) == Len(axes) = Len(shape)
Transpose(shape, axes) == [i \in 1..Len(axes) |-> shape[axes[i] + 1]]

\* the axes handed to the two transposes, lines 209 and 210
ImgAxes == <<0, 1, 2>>
MskAxes == <<1, 2, 0>>

\* np.stack(list): every array must have the same shape
StackOk(list) == Len(list) > 0 /\ \A i \in 1..Len(list) : list[i] = list[1]
Stack(list) == <<Len(list)>> \o list[1]

\* batches that do not overlap: batch b starts at sample b * batch_size
FileIdxStrided(batch_idx, i) == batch_idx * batch_size + (i - 1)

\* the positions range(batch_idx, batch_idx + self.batch_size) yields
FileIdx(batch_idx, i) == batch_idx + (i - 1)

\* the body of the for loop from its i-th pass on; acc holds the positions
\* read so far and the two lists
RECURSIVE Loop(_, _, _, _)
Loop(batch_idx, smp, i, acc) ==
    IF i > batch_size
    THEN IF StackOk(acc.img_list) /\ StackOk(acc.msk_list)
         THEN [NoRet EXCEPT !.op = "__getitem__", !.kind = "batch",
                            !.b = batch_idx, !.idx = acc.idx,
                            !.img_shape = Stack(acc.img_list),
                            !.msk_shape = Stack(acc.msk_list),
                            !.msk_vals = acc.vals]
         ELSE [NoRet EXCEPT !.op = "__getitem__", !.kind = "ValueError",
                            !.b = batch_idx, !.idx = acc.idx]
    ELSE LET file_idx == FileIdx(batch_idx, i)
             image_arr == ResizedShape(res, smp[i].ch)
             mask_arr == ResizedShape(res, 0)
             image_aug == IF transforms
                          THEN Augmented(augment_images(image_arr))
                          ELSE image_arr
             mask_aug == IF transforms THEN Augmented(mask_arr) ELSE mask_arr
             read == Append(acc.idx, file_idx)
         IN  IF ~InRange(file_idx)
             THEN [NoRet EXCEPT !.op = "__getitem__", !.kind = "IndexError",
                                !.b = batch_idx, !.idx = read]
             ELSE IF transforms /\ BackgroundMissing
             THEN [NoRet EXCEPT !.op = "__getitem__", !.kind = "ValueError",
                                !.b = batch_idx, !.idx = read]
             ELSE IF ClassCheckFails(smp[i].vals)
             THEN [NoRet EXCEPT !.op = "__getitem__", !.kind = "ValueError",
                                !.b = batch_idx, !.idx = read]
             ELSE IF ~TransposeOk(image_aug, ImgAxes)
             THEN [NoRet EXCEPT !.op = "__getitem__", !.kind = "ValueError",
                                !.b = batch_idx, !.idx = read]
             ELSE Loop(batch_idx, smp, i + 1,
                       [idx |-> read,
                        img_list |-> Append(acc.img_list,
                                            Transpose(image_aug, ImgAxes)),
                        msk_list |-> Append(acc.msk_list,
                                            Transpose(ExpandDims(mask_aug),
                                                      MskAxes)),
                        vals |-> acc.vals \cup smp[i].vals])

\* dataset[batch_idx]; smp[i] is what the files of the i-th sample decode to
__getitem__(batch_idx, smp) ==
    /\ constructed
    /\ ret' = Loop(batch_idx, smp, 1,
                   [idx |-> <<>>, img_list |-> <<>>, msk_list |-> <<>>,
                    vals |-> {}])
    /\ UNCHANGED <<img_pths, msk_pths, res, batch_size, transforms, tfs_prb,
                   bg_dir_pth, default_tfs, constructed, found, arg_tfs>>

----------------------------------------------------------------------------
(* The program *)

Init ==
    /\ constructed = FALSE
    /\ img_pths = <<>>
    /\ msk_pths = <<>>
    /\ res = <<0, 0>>
    /\ batch_size = 1
    /\ transforms = FALSE
    /\ bg_dir_pth = None
    /\ tfs_prb = EmptyDict
    /\ default_tfs = EmptyDict
    /\ found = <<0, 0>>
    /\ arg_tfs = EmptyDict
    /\ ret = NoRet

\* the caller drops the instance; the next one is built in the same process,
\* where the default value of the tfs_prb parameter is still the same dict
Discard ==
    /\ constructed
    /\ constructed' = FALSE
    /\ img_pths' = <<>>
    /\ msk_pths' = <<>>
    /\ res' = <<0, 0>>
    /\ batch_size' = 1
    /\ transforms' = FALSE
    /\ bg_dir_pth' = None
    /\ tfs_prb' = EmptyDict
    /\ found' = <<0, 0>>
    /\ arg_tfs' = EmptyDict
    /\ ret' = NoRet
    /\ UNCHANGED default_tfs

(* Spec: any two directories, any shuffle, samples that decode to RGB images *)
(* and 0/1 masks, augmentation off.                                         *)

\* the default resolution and one the constructor rejects
CorpusRes == {<<8, 8>>, <<0, 8>>}

CleanSample == [ch |-> 3, vals |-> {Scaled(0), Scaled(1)}]

Construct ==
    \E imgStems \in SUBSET Stems, mskStems \in SUBSET Stems,
       r \in CorpusRes, bs \in BatchSizes :
        \E p \in Perms(Min(Cardinality(imgStems), Cardinality(mskStems))) :
            /\ ~constructed
            /\ __init__(imgStems, mskStems, r, bs, FALSE, TRUE, EmptyDict,
                        None, p)

GetBatch ==
    \E batch_idx \in BatchIdxs :
        __getitem__(batch_idx, [i \in 1..batch_size |-> CleanSample])

EpochEnd == \E p \in Perms(Len(img_pths)) : on_epoch_end(p)

Next == Construct \/ Length \/ GetBatch \/ EpochEnd

Spec == Init /\ [][Next]_vars

(* SpecBatch: a corpus of MaxBatch matching pairs; the resolution, the      *)
(* augmentation switch, the background directory and what the files decode *)
(* to vary.                                                                 *)

BatchStems == 1..MaxBatch

\* (width, height): the default, a non-square one and two that are rejected
BatchRes == {<<8, 8>>, <<8, 4>>, <<0, 8>>, <<8, 0>>}

BatchTfs == {EmptyDict, [k \in {"BackgroundSwap"} |-> 0]}

BatchSamples ==
    { [ch |-> 3, vals |-> {Scaled(0), Scaled(1)}],
      [ch |-> 4, vals |-> {Scaled(0), Scaled(1)}],
      [ch |-> 0, vals |-> {Scaled(0), Scaled(1)}],
      [ch |-> 3, vals |-> {Scaled(0), 1, Scaled(1)}],
      [ch |-> 3, vals |-> {Scaled(0), Scaled(1), Scaled(2)}],
      [ch |-> 3, vals |-> {Scaled(-1), Scaled(0)}] }

ConstructBatch ==
    \E r \in BatchRes, bs \in BatchSizes, tf \in BOOLEAN, tfs \in BatchTfs,
       bg \in BgDirs, p \in Perms(MaxBatch) :
        /\ ~constructed
        /\ __init__(BatchStems, BatchStems, r, bs, tf, FALSE, tfs, bg, p)

GetBatchAny ==
    \E batch_idx \in 0..MaxBatch, smp \in [1..batch_size -> BatchSamples] :
        __getitem__(batch_idx, smp)

NextBatch == ConstructBatch \/ GetBatchAny

SpecBatch == Init /\ [][NextBatch]_vars

(* SpecTfs: one matching pair on disk; the caller's tfs_prb varies, and     *)
(* instances follow one another in the process.                             *)

AllKeys == RecognizedKeys \cup {"Extra"}

\* the c-th value a caller may give for key k
Override(k, c) ==
    IF k = "RotateLimit" THEN (IF c = 1 THEN <<-10, 10>> ELSE <<0, 45>>)
    ELSE IF c = 1 THEN 0 ELSE 100

ConstructTfs ==
    \E D \in SUBSET AllKeys, c \in [AllKeys -> {1, 2}], useDefault \in BOOLEAN :
        /\ ~constructed
        /\ useDefault => D = {}
        /\ \A k \in AllKeys \ D : c[k] = 1
        /\ __init__({1}, {1}, <<8, 8>>, 1, FALSE, useDefault,
                    [k \in D |-> Override(k, c[k])], None, <<1>>)

NextTfs == ConstructTfs \/ Discard

SpecTfs == Init /\ [][NextTfs]_vars

----------------------------------------------------------------------------
(* Properties *)

n_samples == Len(img_pths)

\* C1: constructing a RailDataset fails whenever the number of image files
\* found differs from the number of mask files found.
C1_CountMismatchRejected == constructed => found[1] = found[2]

\* C2: after a successful construction, and after any get_batch and
\* on_epoch_end calls, the two path lists have the same length and the stems
\* match at every position.
C2_PathsAligned ==
    constructed =>
        /\ Len(img_pths) = Len(msk_pths)
        /\ \A i \in 1..Len(img_pths) : Stem(img_pths[i]) = Stem(msk_pths[i])

C2_Witness ==
    /\ constructed
    /\ ret.op = "on_epoch_end"
    /\ n_samples >= 2
    /\ Stem(img_pths[1]) > Stem(img_pths[2])

\* how often the pair pr occurs in the corpus
PairCount(pr) ==
    Cardinality({i \in 1..Len(img_pths) : <<img_pths[i], msk_pths[i]>> = pr})

AllPairs == Glob("imgs", Stems, "png") \X Glob("msks", Stems, "png")

\* C3: on_epoch_end only permutes the corpus: every (image path, mask path)
\* pair occurs as often after the call as before it, so the corpus size and
\* length() do not change.
C3_EpochEndPermutes ==
    [][ret'.op = "on_epoch_end" =>
          /\ \A pr \in AllPairs : PairCount(pr)' = PairCount(pr)
          /\ Len(img_pths') = Len(img_pths)
          /\ Len(msk_pths') = Len(msk_pths)
          /\ __len__' = __len__]_vars

C3_Witness ==
    /\ ret.op = "on_epoch_end"
    /\ n_samples >= 3
    /\ Stem(img_pths[1]) = 3
    /\ Stem(msk_pths[3]) = 1

\* C4: for corpus size n and batch size bs >= 1, length() is floor(n / bs):
\* the largest l with l * bs <= n, which is 0 when n < bs.
C4_LengthIsFloor ==
    ret.op = "__len__" =>
        /\ ret.val >= 0
        /\ ret.val * batch_size <= n_samples
        /\ n_samples < (ret.val + 1) * batch_size
        /\ (n_samples < batch_size => ret.val = 0)

C4_Witness ==
    /\ ret.op = "__len__"
    /\ n_samples = 3
    /\ batch_size = 2
    /\ ret.val = 1

\* C5: with augmentation enabled and no background directory, every
\* get_batch(b) whose index b is a position of the corpus fails with a
\* ValueError and returns no batch, whatever the transform probabilities
\* are, and leaves the corpus ordering unchanged.
C5_NoBackgroundFails ==
    [][(ret'.op = "__getitem__" /\ transforms' /\ bg_dir_pth' = None) =>
          /\ img_pths' = img_pths
          /\ msk_pths' = msk_pths
          /\ constructed'
          /\ ret'.b < Len(img_pths) =>
                /\ ret'.kind = "ValueError"
                /\ ret'.img_shape = <<>>
                /\ ret'.msk_shape = <<>>]_vars

C5_Witness ==
    /\ constructed
    /\ ret.op = "__getitem__"
    /\ transforms
    /\ bg_dir_pth = None
    /\ tfs_prb["BackgroundSwap"] = 0
    /\ ret.b < n_samples
    /\ ret.kind = "ValueError"

\* C6: every mask value in a batch returned by get_batch is exactly 0 or 1.
C6_MaskValuesBinary ==
    ret.kind = "batch" => ret.msk_vals \subseteq {Scaled(0), Scaled(1)}

\* the value the claim gives for a key the caller left out
DefaultOf(k) ==
    CASE k = "HorizontalFlip" -> 50
      [] k = "RandomBrightnessContrast" -> 20
      [] k = "Rotate" -> 90
      [] k = "RotateLimit" -> <<-25, 25>>
      [] k = "MotionBlur" -> 10
      [] k = "BackgroundSwap" -> 90

\* C7: after a successful construction every recognized key holds the
\* caller's value if the caller gave one and the default otherwise, and every
\* other key the caller gave is still there with its value.
C7_DefaultsMerged ==
    constructed =>
        /\ \A k \in RecognizedKeys :
              /\ k \in DOMAIN tfs_prb
              /\ tfs_prb[k] = IF k \in DOMAIN arg_tfs THEN arg_tfs[k]
                              ELSE DefaultOf(k)
        /\ \A k \in DOMAIN arg_tfs :
              k \in DOMAIN tfs_prb /\ tfs_prb[k] = arg_tfs[k]

C7_Witness ==
    /\ constructed
    /\ DOMAIN arg_tfs = {"Extra", "Rotate", "RotateLimit"}
    /\ tfs_prb["Extra"] = 100
    /\ tfs_prb["Rotate"] = 0
    /\ tfs_prb["MotionBlur"] = 10
    /\ default_tfs # EmptyDict

C9_ReadsFromBatchIdx ==
    ret.op = "__getitem__" =>
        /\ Len(ret.idx) <= batch_size
        /\ \A i \in 1..Len(ret.idx) : ret.idx[i] = ret.b + (i - 1)
        /\ ret.kind = "batch" => Len(ret.idx) = batch_size
        /\ (ret.kind = "batch" /\ batch_size > 1) =>
              Cardinality({ret.idx[i] : i \in 1..batch_size}
                          \cap {ret.b + 1 + (i - 1) : i \in 1..batch_size})
                  = batch_size - 1

C9_Witness ==
    /\ ret.kind = "batch"
    /\ batch_size = 2
    /\ ret.b = 1
    /\ ret.idx = <<1, 2>>

\* C10: for a batch index b in [0, length()), every position get_batch(b)
\* reads lies in [0, n-1], whatever order on_epoch_end left the corpus in.
C10_ValidIndexInRange ==
    (ret.op = "__getitem__" /\ ret.b < __len__) =>
        /\ ret.kind # "IndexError"
        /\ \A i \in 1..Len(ret.idx) : ret.idx[i] \in 0..(n_samples - 1)

C10_Witness ==
    /\ ret.kind = "batch"
    /\ ret.b < __len__
    /\ batch_size >= 2
    /\ ret.idx[Len(ret.idx)] = n_samples - 1
    /\ Stem(img_pths[1]) > Stem(img_pths[2])

====
